---------------------------- MODULE Spec2Model ----------------------------
(***************************************************************************)
(* Model of the DeFi stablecoin yield pipeline:                            *)
(*   src/data/collect_apy_data.py  (the Collector)                         *)
(*   src/data/build_timeseries.py  (the Panel Builder)                     *)
(*                                                                         *)
(* Text that the code inspects character by character (pool ids, project   *)
(* names, symbols, dates, file names) is a sequence of one-character       *)
(* strings, so that lower(), upper(), `in`, strftime and string ordering   *)
(* are computed and not assumed.  Chain names are only ever compared for   *)
(* equality and stay plain strings.  Numbers read from JSON carry their    *)
(* Python kind: [k |-> "None" | "str" | "bool" | "int" | "float" | "nan",  *)
(* v |-> the value], apy in hundredths of a percent and tvlUsd in dollars. *)
(***************************************************************************)
EXTENDS Integers, Sequences, FiniteSets, TLC

VARIABLES
    pools,          \* argument of filter_stablecoin_lending_pools
    filtered,       \* its result
    df,             \* argument of enrich_data
    enriched,       \* its result
    protocol,       \* argument of classify_protocol_tier
    protocol_tier,  \* its result
    called,         \* which pure function has been applied ("none" before)
    clock,          \* the wall clock: datetime.now() is Times[clock]
    cwd,            \* working directory of the Collector process
    dirs,           \* the directories that exist
    files,          \* the files that exist: path -> rows
    written,        \* history: timestamped snapshot path -> rows last saved there
    runs,           \* number of job runs so far
    last            \* summary of the last job run

vars == <<pools, filtered, df, enriched, protocol, protocol_tier, called,
          clock, cwd, dirs, files, written, runs, last>>

-----------------------------------------------------------------------------
(* Bounds of the model *)

\* longest pool list handed to the filter
MaxPools == 2
\* longest fragment concatenation handed to classify_protocol_tier
MaxFragments == 2
\* job runs (Collector or Panel Builder) in one behaviour
MaxRuns == 4

-----------------------------------------------------------------------------
(* Python str: lower(), upper(), `in`, comparison *)

UpperCase ==
    <<"A","B","C","D","E","F","G","H","I","J","K","L","M",
      "N","O","P","Q","R","S","T","U","V","W","X","Y","Z">>

LowerCase ==
    <<"a","b","c","d","e","f","g","h","i","j","k","l","m",
      "n","o","p","q","r","s","t","u","v","w","x","y","z">>

\* code-point order of the characters the model uses
CodePoints ==
    <<" ","-",".","0","1","2","3","4","5","6","7","8","9">>
    \o UpperCase \o <<"_">> \o LowerCase

IndexOf(c, table) == CHOOSE i \in 1..Len(table) : table[i] = c

ord(c) == IndexOf(c, CodePoints)

lower_char(c) ==
    IF \E i \in 1..Len(UpperCase) : UpperCase[i] = c
    THEN LowerCase[IndexOf(c, UpperCase)] ELSE c

upper_char(c) ==
    IF \E i \in 1..Len(LowerCase) : LowerCase[i] = c
    THEN UpperCase[IndexOf(c, LowerCase)] ELSE c

\* str.lower()
lower(s) == [i \in 1..Len(s) |-> lower_char(s[i])]

\* str.upper()
upper(s) == [i \in 1..Len(s) |-> upper_char(s[i])]

\* `sub in s` on str: sub occurs in s as a contiguous substring
contains(s, sub) ==
    \E i \in 0..(Len(s) - Len(sub)) : SubSeq(s, i + 1, i + Len(sub)) = sub

\* s < t on str: lexicographic by code point
RECURSIVE str_lt(_, _)
str_lt(s, t) ==
    IF t = <<>> THEN FALSE
    ELSE IF s = <<>> THEN TRUE
    ELSE IF s[1] # t[1] THEN ord(s[1]) < ord(t[1])
    ELSE str_lt(Tail(s), Tail(t))

-----------------------------------------------------------------------------
(* The lookup tables, collect_apy_data.py lines 19-78 *)

LENDING_PROTOCOLS ==
    [tier_1_established |->
        << <<"a","a","v","e","-","v","3">>, <<"a","a","v","e","-","v","2">>,
           <<"c","o","m","p","o","u","n","d","-","v","3">>, <<"c","o","m","p","o","u","n","d","-","v","2">>, <<"c","o","m","p","o","u","n","d","-","f","i","n","a","n","c","e">>,
           <<"m","a","k","e","r">>, <<"m","a","k","e","r","d","a","o">> >>,
     tier_2_morpho_ecosystem |->
        << <<"m","o","r","p","h","o","-","b","l","u","e">>, <<"m","o","r","p","h","o","-","a","a","v","e">>, <<"m","o","r","p","h","o","-","c","o","m","p","o","u","n","d">> >>,
     tier_3_emerging |->
        << <<"s","p","a","r","k">>, <<"r","a","d","i","a","n","t">>, <<"v","e","n","u","s">>, <<"b","e","n","q","i">>,
           <<"e","u","l","e","r">>, <<"s","i","l","o">>, <<"a","j","n","a">>,
           <<"g","r","a","n","a","r","y">>, <<"d","f","o","r","c","e">>, <<"t","e","c","t","o","n","i","c">>,
           <<"m","o","o","n","w","e","l","l">>, <<"a","n","g","l","e">>, <<"s","t","u","r","d","y">> >>,
     cross_chain_native |->
        << <<"s","t","a","r","g","a","t","e">>, <<"l","a","y","e","r","z","e","r","o">> >>,
     flow_ecosystem |->
        << <<"k","i","t","t","y","p","u","n","k">>, <<"m","o","r","e","m","a","r","k","e","t","s">>, <<"i","n","c","r","e","m","e","n","t">>, <<"f","l","o","w","t","y">> >>,
     other_chains |->
        << <<"s","o","l","e","n","d">>, <<"p","o","r","t","-","f","i","n","a","n","c","e">>, <<"a","p","r","i","c","o","t">>, <<"t","u","l","i","p">> >>]

\* [p for tier in LENDING_PROTOCOLS.values() for p in tier]
ALL_PROTOCOLS ==
    LENDING_PROTOCOLS.tier_1_established
    \o LENDING_PROTOCOLS.tier_2_morpho_ecosystem
    \o LENDING_PROTOCOLS.tier_3_emerging
    \o LENDING_PROTOCOLS.cross_chain_native
    \o LENDING_PROTOCOLS.flow_ecosystem
    \o LENDING_PROTOCOLS.other_chains

STABLECOINS ==
    << <<"U","S","D","C">>, <<"U","S","D","T">>, <<"D","A","I">>, <<"B","U","S","D">>, <<"T","U","S","D">>, <<"U","S","D","P">>, <<"G","U","S","D">>, <<"L","U","S","D">>,
       <<"F","R","A","X">>, <<"U","S","T">>, <<"U","S","D","D">>, <<"U","S","D","C",".","E">>, <<"U","S","D","b","C">>, <<"s","t","g","U","S","D","C">>,
       <<"E","U","R","C">>, <<"E","U","R","S">>, <<"E","U","R","T">>, <<"a","g","E","U","R">>,
       <<"s","U","S","D">>, <<"M","I","M">>, <<"U","S","D","F">>, <<"c","r","v","U","S","D">>, <<"G","H","O">> >>

\* the groups of BLOCKCHAIN_NETWORKS, as its comments name them
NetworksMainnet == <<"Ethereum">>

NetworksL2s ==
    <<"Arbitrum", "Optimism", "Base", "zkSync Era", "Polygon zkEVM",
      "Linea", "Scroll", "Mantle", "Blast">>

NetworksSidechains ==
    <<"Polygon", "BNB Chain", "Avalanche", "Fantom",
      "Gnosis", "Celo", "Harmony", "Moonbeam", "Moonriver">>

NetworksAltL1s == <<"Flow", "Solana", "Near", "Aurora">>

NetworksOthers == <<"Metis", "Boba", "Cronos">>

BLOCKCHAIN_NETWORKS ==
    NetworksMainnet \o NetworksL2s \o NetworksSidechains
    \o NetworksAltL1s \o NetworksOthers

\* any(p(x) for x in seq)
Range(seq) == {seq[i] : i \in 1..Len(seq)}

-----------------------------------------------------------------------------
(* Python numbers as JSON delivers them *)

None == [k |-> "None", v |-> 0]
NaN == [k |-> "nan", v |-> 0]
PyStr == [k |-> "str", v |-> 0]
PyBool(b) == [k |-> "bool", v |-> IF b THEN 1 ELSE 0]
PyInt(n) == [k |-> "int", v |-> n]
PyFloat(x) == [k |-> "float", v |-> x]

\* isinstance(x, (int, float)): bool is a subclass of int, nan is a float
isinstance_int_float(x) == x.k \in {"bool", "int", "float", "nan"}

\* x > 0 for an int or float: every comparison with nan is False
gt_zero(x) == x.k # "nan" /\ x.v > 0

-----------------------------------------------------------------------------
(* filter_stablecoin_lending_pools, collect_apy_data.py lines 103-145 *)

excluded_types ==
    << <<"l","p">>, <<"v","a","u","l","t">>, <<"f","a","r","m">>, <<"l","e","v","e","r","a","g","e">>, <<"p","e","r","p">>, <<"o","p","t","i","o","n","s">> >>

\* line 119: any(ex_type in pool_id.lower() for ex_type in excluded_types)
is_excluded_type(pool_id) ==
    \E ex_type \in Range(excluded_types) : contains(lower(pool_id), ex_type)

\* line 123, with project already lower-cased at line 112
is_lending(project) ==
    \E proto \in Range(ALL_PROTOCOLS) : contains(project, proto)

\* line 126, with symbol already upper-cased at line 113
is_stable(symbol) ==
    \E stable \in Range(STABLECOINS) : contains(symbol, stable)

\* line 129
is_tracked_chain(chain) == chain \in Range(BLOCKCHAIN_NETWORKS)

\* the same test with apy >= 0
has_apy_nonneg(apy) ==
    apy.k # "None" /\ isinstance_int_float(apy) /\ (apy.k # "nan" /\ apy.v >= 0)

\* line 132
has_apy(apy) == apy.k # "None" /\ isinstance_int_float(apy) /\ gt_zero(apy)

\* lines 111-135: one pass of the loop body; TRUE when the pool is appended
keeps(pool) ==
    LET project == lower(pool.project)
        symbol == upper(pool.symbol)
        chain == pool.chain
        apy == pool.apy
        pool_id == pool.pool
    IN  IF is_excluded_type(pool_id) THEN FALSE
        ELSE is_lending(project) /\ is_stable(symbol)
             /\ is_tracked_chain(chain) /\ has_apy(apy)

\* lines 108-145: the loop over pools, then the DataFrame of what was kept
\* (an empty DataFrame when nothing was); a frame is its sequence of rows
RECURSIVE filter_loop(_, _, _)
filter_loop(ps, i, acc) ==
    IF i > Len(ps) THEN acc
    ELSE filter_loop(ps, i + 1, IF keeps(ps[i]) THEN Append(acc, ps[i]) ELSE acc)

filter_stablecoin_lending_pools(ps) == filter_loop(ps, 1, <<>>)

-----------------------------------------------------------------------------
(* datetime.now() and strftime *)

Digits == <<"0","1","2","3","4","5","6","7","8","9">>

\* a non-negative number printed in exactly w decimal digits (%m, %d, %H, %M, %Y)
RECURSIVE zero_padded(_, _)
zero_padded(n, w) ==
    IF w = 0 THEN <<>>
    ELSE Append(zero_padded(n \div 10, w - 1), Digits[(n % 10) + 1])

\* strftime('%Y-%m-%d'), line 155
strftime_date(t) ==
    zero_padded(t.year, 4) \o <<"-">> \o zero_padded(t.month, 2)
    \o <<"-">> \o zero_padded(t.day, 2)

\* strftime('%Y%m%d_%H%M'), line 270
strftime_minute(t) ==
    zero_padded(t.year, 4) \o zero_padded(t.month, 2) \o zero_padded(t.day, 2)
    \o <<"_">> \o zero_padded(t.hour, 2) \o zero_padded(t.minute, 2)

\* isoformat(), line 154, to the minute
isoformat(t) ==
    strftime_date(t) \o <<"T">> \o zero_padded(t.hour, 2)
    \o <<":">> \o zero_padded(t.minute, 2)

-----------------------------------------------------------------------------
(* enrich_data and the classifiers, collect_apy_data.py lines 148-260 *)

\* the same chain of tests with the Tier 2 test placed before the Tier 1 test
classify_protocol_tier_reordered(name) ==
    LET p == lower(name)
    IN  IF \E x \in { <<"m","o","r","p","h","o">>, <<"s","p","a","r","k">> } : contains(p, x)
        THEN "Tier 2 - Established"
        ELSE IF \E x \in { <<"a","a","v","e">>, <<"c","o","m","p","o","u","n","d">>, <<"m","a","k","e","r">> } : contains(p, x)
        THEN "Tier 1 - Blue Chip"
        ELSE IF \E x \in { <<"r","a","d","i","a","n","t">>, <<"v","e","n","u","s">>, <<"b","e","n","q","i">>, <<"e","u","l","e","r">> } : contains(p, x)
        THEN "Tier 3 - Emerging"
        ELSE "Tier 4 - New/Niche"

\* lines 211-222
classify_protocol_tier(name) ==
    LET p == lower(name)
    IN  IF \E x \in { <<"a","a","v","e">>, <<"c","o","m","p","o","u","n","d">>, <<"m","a","k","e","r">> } : contains(p, x)
        THEN "Tier 1 - Blue Chip"
        ELSE IF \E x \in { <<"m","o","r","p","h","o">>, <<"s","p","a","r","k">> } : contains(p, x)
        THEN "Tier 2 - Established"
        ELSE IF \E x \in { <<"r","a","d","i","a","n","t">>, <<"v","e","n","u","s">>, <<"b","e","n","q","i">>, <<"e","u","l","e","r">> } : contains(p, x)
        THEN "Tier 3 - Emerging"
        ELSE "Tier 4 - New/Niche"

\* lines 225-240
classify_chain_type(chain) ==
    LET l2s == <<"Arbitrum", "Optimism", "Base", "zkSync", "Polygon zkEVM",
                 "Linea", "Scroll", "Mantle", "Blast">>
        sidechains == <<"Polygon", "BNB Chain", "Avalanche", "Fantom", "Gnosis">>
        alt_l1s == <<"Flow", "Solana", "Near", "Aurora">>
    IN  IF chain = "Ethereum" THEN "L1 - Ethereum"
        ELSE IF chain \in Range(l2s) THEN "L2 - Rollup"
        ELSE IF chain \in Range(sidechains) THEN "Sidechain"
        ELSE IF chain \in Range(alt_l1s) THEN "Alt L1"
        ELSE "Other"

\* lines 243-260
classify_stablecoin_type(asset) ==
    LET asset_upper == upper(asset)
    IN  IF \E s \in { <<"U","S","D","C">>, <<"U","S","D","T">>, <<"B","U","S","D">>, <<"E","U","R","C">>, <<"T","U","S","D">>, <<"G","U","S","D">> } :
               contains(asset_upper, s)
        THEN "Fiat-backed"
        ELSE IF \E s \in { <<"D","A","I">>, <<"L","U","S","D">>, <<"F","R","A","X">>, <<"S","U","S","D">>, <<"C","R","V","U","S","D">>, <<"G","H","O">> } :
               contains(asset_upper, s)
        THEN "Decentralized"
        ELSE IF \E s \in { <<"U","S","T">>, <<"U","S","D","D">>, <<"M","I","M">> } : contains(asset_upper, s)
        THEN "Algorithmic"
        ELSE "Other"

\* np.inf as a bin edge
Inf == [inf |-> TRUE, n |-> 0]
Edge(n) == [inf |-> FALSE, n |-> n]

\* line 191
tvl_bins == <<Edge(0), Edge(1000000), Edge(10000000), Edge(100000000), Inf>>

\* line 192
tvl_labels == <<"<$1M", "$1-10M", "$10-100M", ">$100M">>

\* pd.cut(x, bins, labels) with its defaults right=True, include_lowest=False:
\* bin i is (bins[i], bins[i+1]]; NaN and values in no bin give NaN
cut(x, bins, labels) ==
    LET inside(i) ==
            /\ ~bins[i].inf /\ x.v > bins[i].n
            /\ (bins[i + 1].inf \/ x.v <= bins[i + 1].n)
    IN  IF x.k \in {"None", "nan", "missing"} THEN "NaN"
        ELSE IF \E i \in 1..(Len(bins) - 1) : inside(i)
        THEN labels[CHOOSE i \in 1..(Len(bins) - 1) : inside(i)]
        ELSE "NaN"

\* a key no pool of the frame carries gives no column
Missing == [k |-> "missing", v |-> 0]

\* lines 148-208, on a frame of pools read at clock value now.  The columns the
\* model carries: the identity fields, apy_total, tvl_usd, the snapshot
\* metadata and the four classifications.  tvl_category exists only when the
\* frame has a tvl_usd column (line 184).
enrich_data(frame, now) ==
    LET has_tvl == \E i \in 1..Len(frame) : frame[i].tvlUsd.k # "missing"
        row(p) ==
            [pool |-> p.pool,
             chain |-> p.chain,
             timestamp |-> isoformat(now),
             date |-> strftime_date(now),
             collection_hour |-> now.hour,
             protocol |-> p.project,
             asset |-> p.symbol,
             tvl_usd |-> IF ~has_tvl THEN Missing
                         ELSE IF p.tvlUsd.k = "missing" THEN NaN ELSE p.tvlUsd,
             apy_total |-> p.apy,
             tvl_category |-> IF has_tvl THEN cut(p.tvlUsd, tvl_bins, tvl_labels)
                              ELSE "missing",
             protocol_tier |-> classify_protocol_tier(p.project),
             chain_type |-> classify_chain_type(p.chain),
             stable_type |-> classify_stablecoin_type(p.symbol)]
    IN  IF frame = <<>> THEN frame
        ELSE [i \in 1..Len(frame) |-> row(frame[i])]

-----------------------------------------------------------------------------
(* The file system, pandas CSV I/O *)

\* directories are sequences of path components
ScriptDir == <<"repo", "src", "data">>     \* Path(__file__).parent of both scripts
RepoRoot == <<"repo">>

Path(dir, name) == [dir |-> dir, name |-> name]

latest_name == <<"d","e","f","i","_","y","i","e","l","d","s","_","l","a","t","e","s","t",".","c","s","v">>

\* line 273: f"defi_yields_{timestamp}.csv"
snapshot_name(t) == <<"d","e","f","i","_","y","i","e","l","d","s","_">> \o strftime_minute(t) \o <<".","c","s","v">>

\* DataFrame.to_csv(index=False): a missing value is written as an empty cell
to_csv(frame) ==
    [i \in 1..Len(frame) |->
        [frame[i] EXCEPT
            !.tvl_category = IF @ = "NaN" THEN "" ELSE @,
            !.tvl_usd = IF @.k \in {"None", "nan"} THEN [k |-> "empty", v |-> 0] ELSE @]]

\* pd.read_csv: an empty cell is read as NaN; text and numbers read back as written
read_csv(rows) ==
    [i \in 1..Len(rows) |->
        [rows[i] EXCEPT
            !.tvl_category = IF @ = "" THEN "NaN" ELSE @,
            !.tvl_usd = IF @.k = "empty" THEN NaN ELSE @]]

\* writing a file creates it or replaces its content
write_file(fs, path, rows) == [p \in (DOMAIN fs) \cup {path} |-> IF p = path THEN rows ELSE fs[p]]

\* os.makedirs(d, exist_ok=True): d and every missing parent
makedirs(ds, d) == ds \cup {SubSeq(d, 1, n) : n \in 1..Len(d)}

-----------------------------------------------------------------------------
(* The Collector, collect_apy_data.py *)

\* what requests.get / raise_for_status / response.json() can do (lines 90-94):
\* the three RequestException kinds, a body that is JSON but no object
\* (data.get raises AttributeError), or an object whose 'data' is the pool list
TransportErrors == {"ConnectionError", "Timeout", "HTTPError"}

\* the same request without the except clause
fetch_defillama_pools_uncaught(response) ==
    IF response.kind \in TransportErrors \cup {"AttributeError"}
    THEN [raised |-> TRUE, pools |-> <<>>]
    ELSE [raised |-> FALSE, pools |-> response.data]

\* lines 85-100: RequestException is caught and gives [], anything else escapes
fetch_defillama_pools(response) ==
    IF response.kind \in TransportErrors THEN [raised |-> FALSE, pools |-> <<>>]
    ELSE IF response.kind = "AttributeError" THEN [raised |-> TRUE, pools |-> <<>>]
    ELSE [raised |-> FALSE, pools |-> response.data]

\* lines 263-282, called with output_dir = 'raw', which the process resolves
\* against its working directory; t is datetime.now() at line 270
save_comprehensive_dataset(frame, workdir, t, fs, ds) ==
    LET output_dir == workdir \o <<"raw">>
        filename == Path(output_dir, snapshot_name(t))
        latest == Path(output_dir, latest_name)
    IN  IF frame = <<>> THEN [fs |-> fs, ds |-> ds, saved |-> FALSE, filename |-> filename]
        ELSE [fs |-> write_file(write_file(fs, filename, to_csv(frame)),
                                latest, to_csv(frame)),
              ds |-> makedirs(ds, output_dir),
              saved |-> TRUE,
              filename |-> filename]

\* lines 414-444.  analyze_market_landscape and the prints only read the frame
\* and write to the console.
main(response, t1, t2, workdir, fs, ds) ==
    LET fetched == fetch_defillama_pools(response)
        all_pools == fetched.pools
        df_filtered == filter_stablecoin_lending_pools(all_pools)
        df_enriched == enrich_data(df_filtered, t1)
        save == save_comprehensive_dataset(df_enriched, workdir, t2, fs, ds)
        summary(outcome) ==
            [job |-> "collector", outcome |-> outcome, fetch |-> response.kind,
             fetched |-> Len(all_pools), kept |-> Len(df_filtered)]
        aborted(outcome) ==
            [fs |-> fs, ds |-> ds, saved |-> FALSE, filename |-> save.filename,
             rows |-> <<>>, last |-> summary(outcome)]
    IN  IF fetched.raised THEN aborted("raised")
        ELSE IF all_pools = <<>> THEN aborted("fetch_failed")
        ELSE IF df_filtered = <<>> THEN aborted("no_pools")
        ELSE [fs |-> save.fs, ds |-> save.ds, saved |-> save.saved,
              filename |-> save.filename, rows |-> to_csv(df_enriched),
              last |-> summary("saved")]

-----------------------------------------------------------------------------
(* The Panel Builder, build_timeseries.py *)

raw_data_dir == ScriptDir \o <<"raw">>
processed_dir == ScriptDir \o <<"processed">>
panel_path == Path(processed_dir, <<"y","i","e","l","d","_","p","a","n","e","l",".","c","s","v">>)

\* fnmatch of a name against 'defi_yields_*.csv'
glob_match(name) ==
    LET prefix == <<"d","e","f","i","_","y","i","e","l","d","s","_">>
        suffix == <<".","c","s","v">>
    IN  /\ Len(name) >= Len(prefix) + Len(suffix)
        /\ SubSeq(name, 1, Len(prefix)) = prefix
        /\ SubSeq(name, Len(name) - Len(suffix) + 1, Len(name)) = suffix

\* the glob alone
snapshot_files_unfiltered(fs) ==
    {p \in DOMAIN fs : p.dir = raw_data_dir /\ glob_match(p.name)}

\* lines 19-20: the glob, then `'latest' not in f.name`
snapshot_files(fs) ==
    {p \in DOMAIN fs : /\ p.dir = raw_data_dir
                       /\ glob_match(p.name)
                       /\ ~contains(p.name, <<"l","a","t","e","s","t">>)}

\* the same comparison on the pool column alone
key_le_pool_only(a, b) == ~str_lt(b.pool, a.pool)

\* row a sorts no later than row b under sort_values(['pool', 'date'])
key_le(a, b) ==
    \/ str_lt(a.pool, b.pool)
    \/ a.pool = b.pool /\ ~str_lt(b.date, a.date)

\* insertion of one row behind every row that sorts no later
RECURSIVE insert_sorted(_, _)
insert_sorted(sorted, r) ==
    IF sorted = <<>> THEN <<r>>
    ELSE IF key_le(sorted[1], r) THEN <<sorted[1]>> \o insert_sorted(Tail(sorted), r)
    ELSE <<r>> \o sorted

\* line 36: panel.sort_values(['pool', 'date']), ascending, ties in frame order
RECURSIVE sort_rows(_, _)
sort_rows(frame, n) ==
    IF n = 0 THEN <<>> ELSE insert_sorted(sort_rows(frame, n - 1), frame[n])

sort_values(frame) == sort_rows(frame, Len(frame))

\* lines 28-33: read every file in the order the glob listed them, concatenate
RECURSIVE concat_files(_, _)
concat_files(fs, listing) ==
    IF listing = <<>> THEN <<>>
    ELSE read_csv(fs[listing[1]]) \o concat_files(fs, Tail(listing))

\* the orders in which a directory listing may return a set of paths
Listings(S) ==
    {l \in [1..Cardinality(S) -> S] : \A i, j \in 1..Cardinality(S) : i # j => l[i] # l[j]}

\* lines 10-47; listing is the glob result, already without 'latest'
build_panel_dataset(listing, fs, ds) ==
    IF Len(listing) = 0
    THEN [fs |-> fs, ds |-> ds,
          last |-> [job |-> "builder", outcome |-> "no_snapshots", fetch |-> "",
                    fetched |-> 0, kept |-> 0]]
    ELSE LET panel == sort_values(concat_files(fs, listing))
         IN  [fs |-> write_file(fs, panel_path, to_csv(panel)),
              ds |-> ds \cup {processed_dir},
              last |-> [job |-> "builder", outcome |-> "built", fetch |-> "",
                        fetched |-> Len(listing), kept |-> Len(panel)]]

-----------------------------------------------------------------------------
(* Inputs of the model *)

\* the instants at which the jobs may run: a year change, the 9th and the 10th
\* of a month, and two consecutive minutes of one day
Times ==
    << [year |-> 2023, month |-> 12, day |-> 31, hour |-> 23, minute |-> 59],
       [year |-> 2024, month |-> 1, day |-> 9, hour |-> 7, minute |-> 30],
       [year |-> 2024, month |-> 1, day |-> 10, hour |-> 7, minute |-> 30],
       [year |-> 2024, month |-> 1, day |-> 10, hour |-> 7, minute |-> 31] >>

PoolIds == { <<"7","4","7","c","-","a","1">>, <<"u","s","d","c","-","L","P","-","7">>, <<"h","e","l","p","-","1">> }

Projects ==
    { <<"a","a","v","e","-","v","3">>, <<"A","a","v","e","-","V","3">>, <<"a","a","v","e">>, <<"u","n","i","s","w","a","p","-","v","3">>, <<"s","p","a","r","k","l","e","n","d">>, <<>> }

Symbols ==
    { <<"U","S","D","C">>, <<"u","s","d","c">>, <<"s","U","S","D">>, <<"U","S","D","b","C">>, <<"a","g","E","U","R">>, <<"c","r","v","U","S","D">>,
      <<"s","t","g","U","S","D","C">>, <<"W","E","T","H">>, <<"D","A","I","-","U","S","D","C">> }

Chains == {"Ethereum", "ethereum", "zkSync Era", "Tron"}

\* apy in hundredths of a percent: PyInt(500) is 5, PyFloat(250) is 2.5
Apys ==
    {None, PyStr, NaN, PyBool(TRUE), PyBool(FALSE), PyInt(0), PyInt(-300), PyInt(500),
     PyFloat(250)}

PoolUniverse ==
    {[pool |-> i, project |-> p, symbol |-> s, chain |-> c, apy |-> a,
      tvlUsd |-> PyInt(5000000)] :
        i \in PoolIds, p \in Projects, s \in Symbols, c \in Chains, a \in Apys}

\* tvlUsd in whole dollars
PoolA ==
    [pool |-> <<"b","-","2">>, project |-> <<"a","a","v","e","-","v","3">>, symbol |-> <<"U","S","D","C">>,
     chain |-> "Ethereum", apy |-> PyInt(500), tvlUsd |-> PyInt(1000000)]

PoolB ==
    [pool |-> <<"a","-","1">>, project |-> <<"M","o","r","p","h","o","-","A","a","v","e">>, symbol |-> <<"D","A","I">>,
     chain |-> "zkSync Era", apy |-> PyFloat(250), tvlUsd |-> PyInt(0)]

PoolBad ==
    [pool |-> <<"c","-","3">>, project |-> <<"a","a","v","e","-","v","3">>, symbol |-> <<"U","S","D","C">>,
     chain |-> "Ethereum", apy |-> None, tvlUsd |-> PyInt(70000000)]

SeqsUpTo(S, n) == UNION {[1..k -> S] : k \in 0..n}

\* pool lists: a prefix of known pools, then any pool of the universe
FilterInputs ==
    {<<>>} \cup
    {prefix \o <<p>> : prefix \in SeqsUpTo({PoolA, PoolBad}, MaxPools - 1),
                       p \in PoolUniverse}

TvlValues ==
    {Missing, None, PyInt(-5), PyInt(0), PyInt(1), PyInt(999999), PyInt(1000000),
     PyInt(1000001), PyInt(9999999), PyInt(10000000), PyInt(10000001), PyInt(99999999),
     PyInt(100000000), PyInt(100000001), PyInt(2000000000)}

EnrichPools ==
    {[pool |-> <<"7","4","7","c","-","a","1">>, project |-> p, symbol |-> s, chain |-> c,
      apy |-> PyInt(500), tvlUsd |-> t] :
        p \in { <<"A","a","v","e","-","V","3">>, <<"s","p","a","r","k","l","e","n","d">>, <<"s","i","l","o">> },
        s \in { <<"U","S","D","C">>, <<"s","U","S","D">>, <<"M","I","M","-","U","S","T">>, <<"E","U","R","S">> },
        c \in Range(BLOCKCHAIN_NETWORKS),
        t \in TvlValues}

\* one-row frames, and two-row frames in which a row may lack tvlUsd
EnrichInputs ==
    {<<p>> : p \in EnrichPools} \cup
    {<<[PoolA EXCEPT !.tvlUsd = t], [PoolB EXCEPT !.tvlUsd = u]>> :
        t \in TvlValues, u \in TvlValues}

Fragments ==
    { <<"A","a","v","e">>, <<"a","a","v","e">>, <<"a","a","v">>, <<"e">>, <<"-","V","3">>, <<"M","o","r","p","h","o","-">>, <<"m","o","r","p","h","o">>,
      <<"s","p","a","r","k">>, <<"S","P","A","R","K">>, <<"c","o","m","p","o","u","n","d">>, <<"M","a","k","e","r">>, <<"r","a","d","i","a","n","t">>, <<"V","e","n","u","s">>,
      <<"b","e","n","q","i">>, <<"E","U","L","E","R">>, <<"s","i","l","o">>, <<"u","n","i","s","w","a","p">>, <<"-">> }

RECURSIVE Concatenations(_)
Concatenations(n) ==
    IF n = 0 THEN {<<>>}
    ELSE Concatenations(n - 1) \cup
         {s \o f : s \in Concatenations(n - 1), f \in Fragments}

ProtocolInputs == Concatenations(MaxFragments)

Responses ==
    {[kind |-> k, data |-> <<>>] : k \in TransportErrors \cup {"AttributeError"}}
    \cup {[kind |-> "ok", data |-> d] :
            d \in {<<>>, <<PoolBad>>, <<PoolA>>, <<PoolA, PoolB>>}}

NoFiles == [p \in {} |-> <<>>]
BaseDirs == makedirs({}, ScriptDir)
NoRun == [job |-> "none", outcome |-> "", fetch |-> "", fetched |-> 0, kept |-> 0]

\* the raw directory as a checkout may leave it: absent, empty, or holding
\* only a defi_yields_latest.csv
InitialFileSystems ==
    { [ds |-> BaseDirs, fs |-> NoFiles],
      [ds |-> BaseDirs \cup {raw_data_dir}, fs |-> NoFiles],
      [ds |-> BaseDirs \cup {raw_data_dir},
       fs |-> write_file(NoFiles, Path(raw_data_dir, latest_name),
                         to_csv(enrich_data(<<PoolA>>, Times[1])))] }

-----------------------------------------------------------------------------
(* The pipeline: Collector and Panel Builder runs over one file system *)

IdleFunctions ==
    /\ pools = <<>> /\ filtered = <<>>
    /\ df = <<>> /\ enriched = <<>>
    /\ protocol = <<>> /\ protocol_tier = ""
    /\ called = "none"

IdlePipeline ==
    /\ clock = 1 /\ cwd = ScriptDir
    /\ dirs = BaseDirs /\ files = NoFiles /\ written = NoFiles
    /\ runs = 0 /\ last = NoRun

Init ==
    /\ IdleFunctions
    /\ clock = 1
    /\ cwd \in {ScriptDir, RepoRoot}
    /\ \E f \in InitialFileSystems : dirs = f.ds /\ files = f.fs
    /\ written = NoFiles
    /\ runs = 0
    /\ last = NoRun

function_vars == <<pools, filtered, df, enriched, protocol, protocol_tier, called>>
pipeline_vars == <<clock, cwd, dirs, files, written, runs, last>>

\* time passes between runs
Tick ==
    /\ clock < Len(Times)
    /\ clock' = clock + 1
    /\ UNCHANGED <<function_vars, cwd, dirs, files, written, runs, last>>

\* one run of collect_apy_data.py; the clock may move on between the reading
\* in enrich_data and the one in save_comprehensive_dataset
Collect(response, t2) ==
    /\ runs < MaxRuns
    /\ \E r \in {main(response, Times[clock], Times[t2], cwd, files, dirs)} :
           /\ files' = r.fs
           /\ dirs' = r.ds
           /\ last' = r.last
           /\ written' = IF r.saved THEN write_file(written, r.filename, r.rows)
                         ELSE written
    /\ clock' = t2
    /\ runs' = runs + 1
    /\ UNCHANGED <<function_vars, cwd>>

\* one run of build_timeseries.py
Build(listing) ==
    /\ runs < MaxRuns
    /\ \E r \in {build_panel_dataset(listing, files, dirs)} :
           /\ files' = r.fs
           /\ dirs' = r.ds
           /\ last' = r.last
    /\ runs' = runs + 1
    /\ UNCHANGED <<function_vars, clock, cwd, written>>

Next ==
    \/ Tick
    \/ \E response \in Responses, t2 \in {clock, clock + 1} \cap (1..Len(Times)) :
          Collect(response, t2)
    \/ \E listing \in Listings(snapshot_files(files)) : Build(listing)

Spec == Init /\ [][Next]_vars

-----------------------------------------------------------------------------
(* The pure functions, each applied to an input drawn from its input set *)

InitFilter ==
    /\ pools \in FilterInputs
    /\ filtered = <<>> /\ df = <<>> /\ enriched = <<>>
    /\ protocol = <<>> /\ protocol_tier = "" /\ called = "none"
    /\ IdlePipeline

CallFilter ==
    /\ called = "none"
    /\ filtered' = filter_stablecoin_lending_pools(pools)
    /\ called' = "filter"
    /\ UNCHANGED <<pools, df, enriched, protocol, protocol_tier, pipeline_vars>>

SpecFilter == InitFilter /\ [][CallFilter]_vars

InitEnrich ==
    /\ df \in EnrichInputs
    /\ clock \in 1..Len(Times)
    /\ pools = <<>> /\ filtered = <<>> /\ enriched = <<>>
    /\ protocol = <<>> /\ protocol_tier = "" /\ called = "none"
    /\ cwd = ScriptDir /\ dirs = BaseDirs /\ files = NoFiles /\ written = NoFiles
    /\ runs = 0 /\ last = NoRun

CallEnrich ==
    /\ called = "none"
    /\ enriched' = enrich_data(df, Times[clock])
    /\ called' = "enrich"
    /\ UNCHANGED <<pools, filtered, df, protocol, protocol_tier, pipeline_vars>>

SpecEnrich == InitEnrich /\ [][CallEnrich]_vars

InitTier ==
    /\ protocol \in ProtocolInputs
    /\ pools = <<>> /\ filtered = <<>> /\ df = <<>> /\ enriched = <<>>
    /\ protocol_tier = "" /\ called = "none"
    /\ IdlePipeline

CallTier ==
    /\ called = "none"
    /\ protocol_tier' = classify_protocol_tier(protocol)
    /\ called' = "tier"
    /\ UNCHANGED <<pools, filtered, df, enriched, protocol, pipeline_vars>>

SpecTier == InitTier /\ [][CallTier]_vars

-----------------------------------------------------------------------------
(* Properties *)

\* the retention condition, stated over the raw pool fields
Retained(p) ==
    /\ \A token \in { <<"l","p">>, <<"v","a","u","l","t">>, <<"f","a","r","m">>, <<"l","e","v","e","r","a","g","e">>, <<"p","e","r","p">>, <<"o","p","t","i","o","n","s">> } :
          ~contains(lower(p.pool), token)
    /\ \E id \in Range(ALL_PROTOCOLS) : contains(lower(p.project), id)
    /\ \E ticker \in Range(STABLECOINS) : contains(upper(p.symbol), ticker)
    /\ \E c \in Range(BLOCKCHAIN_NETWORKS) : p.chain = c
    /\ p.apy.k \in {"bool", "int", "float"} /\ p.apy.v > 0

\* C1: filter_stablecoin_lending_pools returns, in input order, exactly the
\* pools whose lower-cased id contains no excluded token, whose lower-cased
\* project contains a catalogued protocol identifier, whose upper-cased symbol
\* contains a stablecoin ticker as catalogued, whose chain equals a tracked
\* network name and whose apy is a Python number (int or float, of which bool
\* is a subtype) above zero; a pool whose apy is None, a string, NaN, zero or
\* negative is never returned, whatever its other fields.
C1_FilterRetainsExactly ==
    called = "filter" =>
        /\ filtered = SelectSeq(pools, Retained)
        /\ \A i \in 1..Len(pools) :
              (pools[i].apy.k \in {"None", "str", "nan"} \/ pools[i].apy.v <= 0)
                  => pools[i] \notin Range(filtered)

\* C1 witness: a two-pool list of which one pool is returned and the other,
\* good in every field but its apy of 0, is not
C1_Witness ==
    /\ called = "filter"
    /\ Len(pools) = 2 /\ Len(filtered) = 1
    /\ \E i \in 1..Len(pools) :
          /\ pools[i].apy = PyInt(0)
          /\ Retained([pools[i] EXCEPT !.apy = PyInt(500)])

\* C2: every pool whose symbol contains a catalogued ticker in any letter case,
\* with a catalogued protocol, a tracked chain, a positive apy and no excluded
\* token in its id, is returned by the filter.
C2_StablecoinMatchIsCaseNormalized ==
    called = "filter" =>
        \A i \in 1..Len(pools) :
            ( /\ \E ticker \in Range(STABLECOINS) :
                    contains(upper(pools[i].symbol), upper(ticker))
              /\ ~is_excluded_type(pools[i].pool)
              /\ is_lending(lower(pools[i].project))
              /\ is_tracked_chain(pools[i].chain)
              /\ pools[i].apy.k \in {"int", "float"} /\ pools[i].apy.v > 0 )
            => pools[i] \in Range(filtered)

\* the bucket the claim assigns to a non-negative tvl_usd
Bucket(v) ==
    IF v < 1000000 THEN "<$1M"
    ELSE IF v < 10000000 THEN "$1-10M"
    ELSE IF v < 100000000 THEN "$10-100M"
    ELSE ">$100M"

\* C3: enrich_data gives every record with tvl_usd >= 0 the tvl_category of the
\* left-closed, right-open bucket [0,1e6), [1e6,10e6), [10e6,100e6), [100e6,inf)
\* that holds its tvl_usd.
C3_TvlBucketsLeftClosed ==
    called = "enrich" =>
        \A i \in 1..Len(df) :
            (df[i].tvlUsd.k \in {"int", "float"} /\ df[i].tvlUsd.v >= 0)
                => enriched[i].tvl_category = Bucket(df[i].tvlUsd.v)

\* a file that is a timestamped snapshot: defi_yields_*.csv other than latest
IsSnapshot(p) == glob_match(p.name) /\ p.name # latest_name

\* a step that is a completed Collector run with the given outcomes
CollectorRan(outcomes) ==
    runs' = runs + 1 /\ last'.job = "collector" /\ last'.outcome \in outcomes

\* C4: every successful Collector run adds one new timestamped snapshot file
\* and changes no existing file other than defi_yields_latest.csv.
C4_SnapshotsImmutable ==
    [][ CollectorRan({"saved"}) =>
          /\ \E p \in (DOMAIN files') \ (DOMAIN files) : IsSnapshot(p)
          /\ \A p \in DOMAIN files : p.name # latest_name => files'[p] = files[p]
      ]_vars

\* C5: a Collector run whose fetch ends in a transport or HTTP error, or
\* returns an empty pool list, or whose filter retains no pool, creates and
\* modifies no file and no directory, and lets no exception escape.
C5_FailedRunWritesNothing ==
    [][ ( /\ runs' = runs + 1
          /\ last'.job = "collector"
          /\ \/ last'.fetch \in {"ConnectionError", "Timeout", "HTTPError"}
             \/ last'.fetch = "ok" /\ (last'.fetched = 0 \/ last'.kept = 0) )
        => ( /\ files' = files
             /\ dirs' = dirs
             /\ last'.outcome \in {"fetch_failed", "no_pools"} )
      ]_vars

\* C5 witness: a run that fetched pools of which the filter retained none,
\* on a file system that already holds files
C5_Witness ==
    /\ last.job = "collector" /\ last.fetch = "ok"
    /\ last.fetched > 0 /\ last.kept = 0
    /\ DOMAIN files # {}

\* the snapshot files the Panel Builder is to fold
PanelSources == {p \in DOMAIN files : p.dir = raw_data_dir /\ IsSnapshot(p)}

RECURSIVE RowsOf(_)
RowsOf(S) ==
    IF S = {} THEN <<>>
    ELSE LET p == CHOOSE q \in S : TRUE IN files[p] \o RowsOf(S \ {p})

Count(r, rows) == Cardinality({i \in 1..Len(rows) : rows[i] = r})

RECURSIVE number_of(_)
number_of(digits) ==
    IF digits = <<>> THEN 0
    ELSE 10 * number_of(SubSeq(digits, 1, Len(digits) - 1))
         + (IndexOf(digits[Len(digits)], Digits) - 1)

\* the calendar day a 'YYYY-MM-DD' text names, as year*10000 + month*100 + day
DayOf(date) ==
    number_of(SubSeq(date, 1, 4)) * 10000 + number_of(SubSeq(date, 6, 7)) * 100
    + number_of(SubSeq(date, 9, 10))

\* C6: after a Panel Builder run with at least one timestamped snapshot in
\* raw/, yield_panel.csv holds every row of every timestamped snapshot as many
\* times as the snapshots hold it and nothing else (no row of
\* defi_yields_latest.csv is added, no duplicate is dropped, the row count is
\* the sum of the snapshots' row counts), in ascending order of pool and,
\* within a pool, of calendar date.
C6_PanelIsSortedConcatenation ==
    (last.job = "builder" /\ PanelSources # {}) =>
        /\ panel_path \in DOMAIN files
        /\ LET panel == files[panel_path]
               rows == RowsOf(PanelSources)
           IN  /\ Len(panel) = Len(rows)
               /\ \A r \in Range(panel) \cup Range(rows) : Count(r, panel) = Count(r, rows)
               /\ \A i, j \in 1..Len(panel) :
                     i < j =>
                        /\ ~str_lt(panel[j].pool, panel[i].pool)
                        /\ panel[i].pool = panel[j].pool
                              => DayOf(panel[i].date) <= DayOf(panel[j].date)

\* C6 witness: a panel built from several snapshots beside a latest file,
\* holding one pool on two dates and one row twice
C6_Witness ==
    /\ last.job = "builder"
    /\ Cardinality(PanelSources) >= 2
    /\ Path(raw_data_dir, latest_name) \in DOMAIN files
    /\ panel_path \in DOMAIN files
    /\ \E i, j \in 1..Len(files[panel_path]) :
          /\ files[panel_path][i].pool = files[panel_path][j].pool
          /\ files[panel_path][i].date # files[panel_path][j].date
    /\ \E i, j \in 1..Len(files[panel_path]) :
          i # j /\ files[panel_path][i] = files[panel_path][j]

\* C7: a Panel Builder run that finds no timestamped snapshot in raw/ (raw/
\* absent, empty, or holding only defi_yields_latest.csv) returns no result,
\* writes no file and creates no directory.
C7_NoSnapshotsNoPanel ==
    [][ (runs' = runs + 1 /\ last'.job = "builder" /\ PanelSources = {})
        => (last'.outcome = "no_snapshots" /\ files' = files /\ dirs' = dirs)
      ]_vars

\* C7 witness: the builder has run on a raw/ holding only the latest file,
\* and neither processed/ nor the panel exists
C7_Witness ==
    /\ last.job = "builder" /\ last.outcome = "no_snapshots"
    /\ Path(raw_data_dir, latest_name) \in DOMAIN files
    /\ processed_dir \notin dirs
    /\ panel_path \notin DOMAIN files

\* C8: after a Panel Builder run that follows successful Collector runs, the
\* rows of every timestamped snapshot the Collector has written are in
\* processed/yield_panel.csv.
C8_BuilderFoldsCollectorSnapshots ==
    (last.job = "builder" /\ DOMAIN written # {}) =>
        /\ panel_path \in DOMAIN files
        /\ \A p \in DOMAIN written :
              \A i \in 1..Len(written[p]) : written[p][i] \in Range(files[panel_path])

\* C9: classify_protocol_tier gives every text exactly one of the four tiers,
\* decided on its lower-cased form: Tier 1 iff it contains aave, compound or
\* maker; Tier 2 iff it does not and contains morpho or spark; Tier 3 iff it
\* contains none of those and contains radiant, venus, benqi or euler; Tier 4
\* otherwise.  "Aave-V3" is Tier 1.
C9_TierFirstMatchWins ==
    called = "tier" =>
        LET has(S) == \E x \in S : contains(lower(protocol), x)
            one == has({ <<"a","a","v","e">>, <<"c","o","m","p","o","u","n","d">>, <<"m","a","k","e","r">> })
            two == has({ <<"m","o","r","p","h","o">>, <<"s","p","a","r","k">> })
            three == has({ <<"r","a","d","i","a","n","t">>, <<"v","e","n","u","s">>, <<"b","e","n","q","i">>, <<"e","u","l","e","r">> })
        IN  /\ protocol_tier \in {"Tier 1 - Blue Chip", "Tier 2 - Established",
                                  "Tier 3 - Emerging", "Tier 4 - New/Niche"}
            /\ (protocol_tier = "Tier 1 - Blue Chip") <=> one
            /\ (protocol_tier = "Tier 2 - Established") <=> (~one /\ two)
            /\ (protocol_tier = "Tier 3 - Emerging") <=> (~one /\ ~two /\ three)
            /\ (protocol_tier = "Tier 4 - New/Niche") <=> (~one /\ ~two /\ ~three)
            /\ protocol = <<"A","a","v","e","-","V","3">> => protocol_tier = "Tier 1 - Blue Chip"

\* C9 witness: a mixed-case name holding a Tier 2 and a Tier 1 token
C9_Witness ==
    /\ called = "tier"
    /\ protocol = <<"M","o","r","p","h","o","-","A","a","v","e">>
    /\ protocol_tier = "Tier 1 - Blue Chip"

\* C10: for every chain of BLOCKCHAIN_NETWORKS, classify_chain_type gives the
\* type of the group the catalogue lists the chain under, and 'Other' only
\* for the chains listed under Others.
C10_ChainTypeAgreesWithCatalogue ==
    called = "enrich" =>
        \A i \in 1..Len(df) :
            LET c == df[i].chain
                t == enriched[i].chain_type
            IN  c \in Range(BLOCKCHAIN_NETWORKS) =>
                  /\ c \in Range(NetworksMainnet) => t = "L1 - Ethereum"
                  /\ c \in Range(NetworksL2s) => t = "L2 - Rollup"
                  /\ c \in Range(NetworksSidechains) => t = "Sidechain"
                  /\ c \in Range(NetworksAltL1s) => t = "Alt L1"
                  /\ t = "Other" => c \in Range(NetworksOthers)

=============================================================================
